---------------------------- MODULE Spec2Model ----------------------------
(***************************************************************************)
(* A model of gnn_tracking's TCNTrainer (training/tcn_trainer.py) and      *)
(* PointCloudBuilder (preprocessing/point_cloud_builder.py).               *)
(*                                                                         *)
(* The module holds several specifications over one set of variables:      *)
(*   Spec        training_step and its out-of-memory counter               *)
(*   SpecLoss    get_batch_losses as a pure function of its inputs         *)
(*   SpecBundle  evaluate_model as a pure function of its inputs           *)
(*   SpecBuilder PointCloudBuilder: construction, then one process() call  *)
(*   SpecEval    test_step: batches, clustering, the metrics log, hooks    *)
(*   SpecMask    the edge selection of evaluate_ec_metrics_with_pt_thld    *)
(*   SpecLoop    the batch loop of one test_step call over long loaders    *)
(* Variables a specification does not use keep their initial value.        *)
(***************************************************************************)
EXTENDS Integers, Sequences, FiniteSets, TLC

VARIABLES
    \* ---- TCNTrainer: training
    loss_functions,           \* self.loss_functions: name -> weight specification
    _n_oom_errors_in_a_row,   \* self._n_oom_errors_in_a_row
    step_result,              \* what the last training_step call did
    oom_since_ok,             \* history: OOM failures since the last successful step
    oom_streak,               \* history: length of the current run of OOM-failing calls
    streak_base,              \* history: the counter when that run began
    body_outcome,             \* history: what the try body of the last call did
    n_before,                 \* history: the counter when the last call began
    \* ---- get_batch_losses as a function
    loss_returns,             \* what each loss function returns for the bundle
    gbl_result,               \* outcome of get_batch_losses on (loss_functions, loss_returns)
    \* ---- evaluate_model as a function
    data,                     \* the input batch
    model_out,                \* what self.model(data) returns
    bundle_train,             \* evaluate_model(data), as training_step calls it
    bundle_eval,              \* evaluate_model(data, mask_pids_reco=False), as test_step does
    \* ---- PointCloudBuilder
    n_sectors, redo, measurement_mode, remove_noise,   \* constructor arguments
    events,                   \* indir: event id -> the event's hit table
    outdir,                   \* outdir: <<evtid, s>> -> the artifact data{evtid}_s{s}.pt
    files_at_init,            \* history: the artifacts outdir held at construction
    exists,                   \* self.exists
    prefixes,                 \* self.prefixes (as event ids)
    data_list,                \* self.data_list
    stats,                    \* self.stats
    b_pc,                     \* where process() is: idle, event, sector, done, error
    b_error,                  \* the exception that ended process(), if any
    n_arg,                    \* process(n)
    ev_i,                     \* i of the for loop over self.prefixes
    sec,                      \* s of the for loop over sectors
    hits_cur,                 \* hits after append_features, for the current event
    counts,                   \* n_hits, n_noise, n_sector_hits of the current event
    ops,                      \* history: loads, computations and saves, in order
    \* ---- TCNTrainer: evaluation
    clustering_functions,     \* self.clustering_functions: the names, in dictionary order
    _epoch,                   \* self._epoch
    _best_cluster_params,     \* self._best_cluster_params: name -> best parameters
    val_loader, test_loader,  \* self.val_loader, self.test_loader
    test_loss,                \* self.test_loss: the metrics log
    _test_hooks,              \* self._test_hooks
    t_pc,                     \* where test_step is: idle, loop, cluster, hooks, done, error
    t_error,                  \* the exception that ended test_step, if any
    n_evals,                  \* history: test_step calls begun
    val, max_batches,         \* arguments of the running test_step call, while read
    _batch_idx,               \* _batch_idx of the loop over the loader
    batch_metrics,            \* batch_metrics["total"]
    cluster_eval_input,       \* the batches whose arrays were accumulated for clustering
    fct_i,                    \* position in self.clustering_functions.items()
    cluster_metrics,          \* metrics of _evaluate_cluster_metrics
    metrics,                  \* metrics of test_step
    hook_i,                   \* position in self._test_hooks
    hook_calls,               \* history: the hook invocations, in order
    cluster_calls,            \* history: the clustering-function invocations, in order
    \* ---- evaluate_ec_metrics_with_pt_thld as a function
    ec_input,                 \* model_output: the entries w, y, edge_index and pt
    pt_min,                   \* the transverse-momentum threshold, in tenths
    edge_pt_mask,             \* edge_pt_mask
    predicted,                \* model_output["w"][edge_pt_mask]
    true                      \* model_output["y"][edge_pt_mask].long()

trainVars == <<_n_oom_errors_in_a_row, step_result, oom_since_ok, oom_streak, streak_base,
               body_outcome, n_before>>
lossVars  == <<loss_returns, gbl_result>>
bundleVars == <<data, model_out, bundle_train, bundle_eval>>
builderCfg  == <<n_sectors, redo, measurement_mode, remove_noise, events, files_at_init,
                 exists, prefixes>>
builderVars == <<builderCfg, outdir, data_list, stats, b_pc, b_error, n_arg, ev_i, sec,
                 hits_cur, counts, ops>>
attrVars  == <<val_loader, test_loader, test_loss, _test_hooks>>
localVars == <<val, max_batches, _batch_idx, batch_metrics, cluster_eval_input, fct_i,
               cluster_metrics, hook_i>>
evalVars  == <<clustering_functions, _epoch, _best_cluster_params, attrVars, t_pc, t_error,
               n_evals, localVars, metrics, hook_calls, cluster_calls>>
maskVars  == <<ec_input, pt_min, edge_pt_mask, predicted, true>>
vars == <<loss_functions, trainVars, lossVars, bundleVars, builderVars, evalVars, maskVars>>

\* an absent dictionary (no call made yet)
NoDict == <<>>

BundleIdle ==
    /\ data = NoDict
    /\ model_out = NoDict
    /\ bundle_train = NoDict
    /\ bundle_eval = NoDict

\* an attribute that was never assigned, and one that holds a value
Undefined == <<"unset", <<>>>>
Attr(value) == <<"set", value>>
IsDefined(attr) == attr[1] = "set"

\* max_batches: None, or an integer
NoMaxBatches == [given |-> FALSE, n |-> 0]
MaxBatchesOf(k) == [given |-> TRUE, n |-> k]

\* the local variables of test_step outside a call
LocalsIdle ==
    /\ val = TRUE
    /\ max_batches = NoMaxBatches
    /\ _batch_idx = 0
    /\ batch_metrics = <<>>
    /\ cluster_eval_input = <<>>
    /\ fct_i = 0
    /\ cluster_metrics = NoDict
    /\ hook_i = 0

\* __init__ (lines 84-91): no clustering result yet, epoch 0; val_loader,
\* test_loader, test_loss and _test_hooks are not assigned by __init__
EvalStart ==
    /\ _epoch = 0
    /\ _best_cluster_params = NoDict
    /\ val_loader = Undefined
    /\ test_loader = Undefined
    /\ test_loss = Undefined
    /\ _test_hooks = Undefined
    /\ t_pc = "idle"
    /\ t_error = ""
    /\ n_evals = 0
    /\ LocalsIdle
    /\ metrics = NoDict
    /\ hook_calls = <<>>
    /\ cluster_calls = <<>>

EvalIdle ==
    /\ clustering_functions = <<>>
    /\ EvalStart

\* evaluate_ec_metrics_with_pt_thld not called
NotMasked == <<"none", <<>>>>

MaskIdle ==
    /\ ec_input = NoDict
    /\ pt_min = 0
    /\ edge_pt_mask = NotMasked
    /\ predicted = NotMasked
    /\ true = NotMasked

NoCounts == [n_hits |-> 0, n_noise |-> 0, n_sector_hits |-> 0]

BuilderIdle ==
    /\ n_sectors = 1
    /\ redo = TRUE
    /\ measurement_mode = FALSE
    /\ remove_noise = FALSE
    /\ events = NoDict
    /\ outdir = NoDict
    /\ files_at_init = {}
    /\ exists = NoDict
    /\ prefixes = <<>>
    /\ data_list = <<>>
    /\ stats = NoDict
    /\ b_pc = "idle"
    /\ b_error = ""
    /\ n_arg = 0
    /\ ev_i = 0
    /\ sec = 0
    /\ hits_cur = <<>>
    /\ counts = NoCounts
    /\ ops = <<>>

(***************************************************************************)
(* Floating-point values.  A finite value is an integer (exact in binary   *)
(* floating point at these magnitudes); NaN and the two infinities follow  *)
(* IEEE 754 arithmetic.                                                    *)
(***************************************************************************)
F(n) == [cls |-> "fin", num |-> n]
NaN  == [cls |-> "nan", num |-> 0]
PInf == [cls |-> "inf", num |-> 1]
NInf == [cls |-> "inf", num |-> -1]

Sign(n) == IF n > 0 THEN 1 ELSE IF n < 0 THEN -1 ELSE 0

FMul(a, b) ==
    IF a.cls = "nan" \/ b.cls = "nan" THEN NaN
    ELSE IF a.cls = "inf" \/ b.cls = "inf"
         THEN IF Sign(a.num) * Sign(b.num) = 0 THEN NaN
              ELSE [cls |-> "inf", num |-> Sign(a.num) * Sign(b.num)]
         ELSE F(a.num * b.num)

FAdd(a, b) ==
    IF a.cls = "nan" \/ b.cls = "nan" THEN NaN
    ELSE IF a.cls = "inf" /\ b.cls = "inf"
         THEN IF a.num = b.num THEN a ELSE NaN
         ELSE IF a.cls = "inf" THEN a
         ELSE IF b.cls = "inf" THEN b
         ELSE F(a.num + b.num)

IsNaN(a) == a.cls = "nan"
IsFinite(a) == a.cls = "fin"


(***************************************************************************)
(* Loss functions.  A loss function returns a scalar, a list or a keyed    *)
(* mapping of sub-losses; a weight specification has one of the same three *)
(* shapes.  A list is held as a mapping from its indices "0", "1", ...     *)
(***************************************************************************)
MaxListLen == 2

IdxStr == <<"0", "1", "2", "3">>
ListKeys(n) == {IdxStr[i] : i \in 1..n}
MapKeys == {"x", "y"}

Scalar(value) == [shape |-> "scalar", vals |-> value]
ListsOver(V) == {[shape |-> "list", vals |-> f] :
                    f \in UNION {[ListKeys(n) -> V] : n \in 1..MaxListLen}}
DictsOver(V) == {[shape |-> "dict", vals |-> f] :
                    f \in UNION {[K -> V] : K \in SUBSET MapKeys \ {{}}}}
ShapesOver(V) == {Scalar(value) : value \in V} \cup ListsOver(V) \cup DictsOver(V)

LossVals   == {F(1), F(-2), NaN, PInf, NInf}
WeightVals == {F(0), F(3)}

\* unpack_loss_returns(key, returns): one entry per sub-loss, keyed by the
\* loss name and, for a list or a mapping, the index or the sub-key.
UnpackLossReturns(key, returns) ==
    IF returns.shape = "scalar"
    THEN (<<key>> :> returns.vals)
    ELSE [kk \in {<<key, sub>> : sub \in DOMAIN returns.vals} |-> returns.vals[kk[2]]]

\* dict.update over every configured loss function (lines 177-181)
RECURSIVE UpdateAll(_, _)
UpdateAll(names, by) ==
    IF names = {} THEN <<>>
    ELSE LET nm == CHOOSE x \in names : TRUE
         IN  UnpackLossReturns(nm, by[nm]) @@ UpdateAll(names \ {nm}, by)

\* weights = collections.defaultdict(lambda: 1.0)
DefaultWeightWrong == F(0)
DefaultWeight == F(1)

WeightOf(weights, kk) == IF kk \in DOMAIN weights THEN weights[kk] ELSE DefaultWeight

\* sum(weights[k] * losses[k] for k in losses), which starts from the int 0
RECURSIVE WeightedSum(_, _, _)
WeightedSum(keys, weights, losses) ==
    IF keys = {} THEN F(0)
    ELSE LET kk == CHOOSE x \in keys : TRUE
         IN  FAdd(FMul(WeightOf(weights, kk), losses[kk]),
                  WeightedSum(keys \ {kk}, weights, losses))

NoTotal == [cls |-> "none", num |-> 0]

\* torch.isnan(total) (line 183)
TotalIsBadWrong(total) == ~IsFinite(total)
TotalIsBad(total) == IsNaN(total)

\* get_batch_losses(model_output): cfg is self.loss_functions (name -> weights),
\* rets what each loss_func(**model_output) returns.
\* lines 182-187, once the two dictionaries are built
CheckedTotal(losses, weights, total) ==
    LET touched == [kk \in DOMAIN weights \cup DOMAIN losses |-> WeightOf(weights, kk)]
    IN  IF DOMAIN losses = {}
        THEN \* sum() of nothing is the int 0, and torch.isnan(0) raises TypeError
             [weights |-> weights, losses |-> losses, total |-> NoTotal, status |-> "TypeError"]
        ELSE IF TotalIsBad(total)
        THEN [weights |-> touched, losses |-> losses, total |-> NoTotal, status |-> "RuntimeError"]
        ELSE [weights |-> touched, losses |-> losses, total |-> total, status |-> "returned"]

SumAndCheck(losses, weights) ==
    CheckedTotal(losses, weights, WeightedSum(DOMAIN losses, weights, losses))

GetBatchLosses(cfg, rets) ==
    SumAndCheck(UpdateAll(DOMAIN cfg, rets), UpdateAll(DOMAIN cfg, cfg))

NoResult == [weights |-> <<>>, losses |-> <<>>, total |-> NoTotal, status |-> "none"]

(***************************************************************************)
(* SpecLoss: get_batch_losses applied to every bounded configuration.      *)
(***************************************************************************)
\* the second loss function is kept scalar to bound the configurations
LossConfigs ==
    {<<>>}
    \cup {("a" :> w) : w \in ShapesOver(WeightVals)}
    \cup {("a" :> w) @@ ("b" :> Scalar(wb)) : w \in ShapesOver(WeightVals), wb \in WeightVals}

ReturnsFor(cfg) ==
    IF DOMAIN cfg = {} THEN {<<>>}
    ELSE IF DOMAIN cfg = {"a"} THEN {("a" :> r) : r \in ShapesOver(LossVals)}
    ELSE {("a" :> r) @@ ("b" :> Scalar(rb)) : r \in ShapesOver(LossVals), rb \in LossVals}

NoError == [type |-> "", msg |-> ""]

TrainIdle ==
    /\ _n_oom_errors_in_a_row = 0
    /\ step_result = [kind |-> "none", err |-> NoError, loss |-> NoTotal]
    /\ body_outcome = [err |-> NoError, loss |-> NoTotal, ok |-> TRUE]
    /\ oom_since_ok = 0
    /\ oom_streak = 0
    /\ streak_base = 0
    /\ n_before = 0

InitLoss ==
    /\ loss_functions \in LossConfigs
    /\ loss_returns \in ReturnsFor(loss_functions)
    /\ gbl_result = NoResult
    /\ TrainIdle
    /\ BundleIdle
    /\ BuilderIdle
    /\ EvalIdle
    /\ MaskIdle

ApplyGetBatchLosses ==
    /\ gbl_result = NoResult
    /\ gbl_result' = GetBatchLosses(loss_functions, loss_returns)
    /\ UNCHANGED <<loss_functions, loss_returns, trainVars, bundleVars, builderVars, evalVars, maskVars>>

NextLoss == ApplyGetBatchLosses

SpecLoss == InitLoss /\ [][NextLoss]_vars

(***************************************************************************)
(* The weighted total written out per loss function and shape: a scalar    *)
(* loss takes the scalar weight, a sub-loss of a list or mapping takes the *)
(* weight configured under the same index or sub-key, and a sub-loss with  *)
(* no configured weight counts once.                                       *)
(***************************************************************************)
ConfiguredWeight(w, shape, sub) ==
    IF shape = "scalar"
    THEN IF w.shape = "scalar" THEN w.vals ELSE F(1)
    ELSE IF w.shape # "scalar" /\ sub \in DOMAIN w.vals THEN w.vals[sub] ELSE F(1)

RECURSIVE SubLossSum(_, _, _)
SubLossSum(subs, w, r) ==
    IF subs = {} THEN F(0)
    ELSE LET sub == CHOOSE x \in subs : TRUE
         IN  FAdd(FMul(ConfiguredWeight(w, r.shape, sub), r.vals[sub]),
                  SubLossSum(subs \ {sub}, w, r))

LossContribution(w, r) ==
    IF r.shape = "scalar" THEN FMul(ConfiguredWeight(w, "scalar", ""), r.vals)
    ELSE SubLossSum(DOMAIN r.vals, w, r)

RECURSIVE HandTotal(_, _, _)
HandTotal(names, cfg, rets) ==
    IF names = {} THEN F(0)
    ELSE LET nm == CHOOSE x \in names : TRUE
         IN  FAdd(LossContribution(cfg[nm], rets[nm]), HandTotal(names \ {nm}, cfg, rets))

ExpectedTotal == HandTotal(DOMAIN loss_functions, loss_functions, loss_returns)

C5_TotalIsWeightedSum ==
    gbl_result.status = "returned" => gbl_result.total = ExpectedTotal

\* C5 witness: a returned total over a scalar loss and a list loss whose
\* weight list is shorter than the list of sub-losses.
C5_Witness ==
    /\ gbl_result.status = "returned"
    /\ DOMAIN loss_functions = {"a", "b"}
    /\ loss_functions["a"] = [shape |-> "list", vals |-> ("0" :> F(3))]
    /\ loss_returns["a"] = [shape |-> "list", vals |-> ("0" :> F(1)) @@ ("1" :> F(-2))]
    /\ loss_functions["b"] = Scalar(F(3))
    /\ loss_returns["b"] = Scalar(F(1))
    /\ gbl_result.total = F(4)

(***************************************************************************)
(* training_step (lines 259-288).                                          *)
(***************************************************************************)
OomMsg      == "CUDA out of memory. Tried to allocate 2.00 GiB"
OomMsgUpper == "CUDA error: Out Of Memory"
ShapeMsg    == "mat1 and mat2 shapes cannot be multiplied"
NaNMsg      == "NaN loss encountered in test step."
IsNanMsg    == "isnan(): argument 'input' must be Tensor, not int"

\* "out of memory" in str(e).casefold()
HasOomText(msg) == msg \in {OomMsg, OomMsgUpper}

\* what data_preproc, the model or a loss function may raise inside the try
BodyFaults ==
    {[type |-> "RuntimeError", msg |-> m] : m \in {OomMsg, OomMsgUpper, ShapeMsg}}
    \cup {[type |-> "MemoryError", msg |-> OomMsg], [type |-> "KeyError", msg |-> "pt"]}

\* the try body (lines 270-272): a fault of a collaborator, or get_batch_losses
TryBody(fault, rets) ==
    IF fault # NoError THEN [err |-> fault, loss |-> NoTotal, ok |-> FALSE]
    ELSE LET r == GetBatchLosses(loss_functions, rets)
         IN  IF r.status = "returned"
             THEN [err |-> NoError, loss |-> r.total, ok |-> TRUE]
             ELSE IF r.status = "RuntimeError"
             THEN [err |-> [type |-> "RuntimeError", msg |-> NaNMsg], loss |-> NoTotal, ok |-> FALSE]
             ELSE [err |-> [type |-> "TypeError", msg |-> IsNanMsg], loss |-> NoTotal, ok |-> FALSE]

\* except RuntimeError as e: if "out of memory" in str(e).casefold()
CaughtAsOomWrong(err) == err.type = "RuntimeError"
CaughtAsOom(err) == err.type = "RuntimeError" /\ HasOomText(err.msg)

OomLimit == 10
\* if self._n_oom_errors_in_a_row > 10: raise
TooManyOomsWrong(n) == n >= OomLimit
TooManyOoms(n) == n > OomLimit

\* else: self._n_oom_errors_in_a_row = 0
CounterAfterSuccessWrong(n) == n
CounterAfterSuccess(n) == 0

\* the model stops counting here; the code's counter is unbounded
MaxOomCount == 12

TrainingStep(fault, rets) ==
    \E o \in {TryBody(fault, rets)} :
    LET n == _n_oom_errors_in_a_row
    IN  /\ n < MaxOomCount
        /\ body_outcome' = o
        /\ n_before' = n
        /\ IF ~o.ok /\ CaughtAsOom(o.err)
           THEN /\ _n_oom_errors_in_a_row' = n + 1
                /\ step_result' =
                      IF TooManyOoms(n + 1)
                      THEN [kind |-> "raise", err |-> o.err, loss |-> NoTotal]
                      ELSE [kind |-> "skip", err |-> NoError, loss |-> NoTotal]
           ELSE IF ~o.ok
           THEN /\ _n_oom_errors_in_a_row' = n
                /\ step_result' = [kind |-> "raise", err |-> o.err, loss |-> NoTotal]
           ELSE /\ _n_oom_errors_in_a_row' = CounterAfterSuccess(n)
                /\ step_result' = [kind |-> "loss", err |-> NoError, loss |-> o.loss]
        \* history
        /\ LET oom == ~o.ok /\ o.err.type = "RuntimeError" /\ HasOomText(o.err.msg)
           IN  /\ oom_since_ok' = IF o.ok THEN 0 ELSE IF oom THEN oom_since_ok + 1
                                  ELSE oom_since_ok
               /\ oom_streak' = IF oom THEN oom_streak + 1 ELSE 0
               /\ streak_base' = IF oom THEN streak_base ELSE _n_oom_errors_in_a_row'
        /\ UNCHANGED <<loss_functions, lossVars, bundleVars, builderVars, evalVars, maskVars>>

StepFails == \E fault \in BodyFaults : TrainingStep(fault, <<>>)
StepRuns  == \E rets \in ReturnsFor(loss_functions) : TrainingStep(NoError, rets)

TrainConfigs ==
    {("a" :> Scalar(F(3))),
     ("a" :> [shape |-> "dict", vals |-> ("x" :> F(0))]) @@ ("b" :> Scalar(F(3)))}

Init ==
    /\ loss_functions \in TrainConfigs
    /\ loss_returns = <<>>
    /\ gbl_result = NoResult
    /\ TrainIdle
    /\ BundleIdle
    /\ BuilderIdle
    /\ EvalIdle
    /\ MaskIdle

Next == StepFails \/ StepRuns

Spec == Init /\ [][Next]_vars

\* the try body of the last call raised a RuntimeError whose text names
\* "out of memory"
LastWasOom ==
    /\ ~body_outcome.ok
    /\ body_outcome.err.type = "RuntimeError"
    /\ HasOomText(body_outcome.err.msg)

C3_OtherRuntimeErrorPropagates ==
    (/\ ~body_outcome.ok
     /\ body_outcome.err.type = "RuntimeError"
     /\ ~HasOomText(body_outcome.err.msg)) =>
        /\ step_result.kind = "raise"
        /\ step_result.err = body_outcome.err
        /\ _n_oom_errors_in_a_row = n_before

\* C3 witness: the NaN-loss error propagated while the counter stood at 10.
C3_Witness ==
    /\ body_outcome.err = [type |-> "RuntimeError", msg |-> NaNMsg]
    /\ n_before = 10
    /\ step_result.kind = "raise"

(***************************************************************************)
(* evaluate_model (lines 112-162).  A tensor is a sequence; a dictionary   *)
(* value is <<"tensor", t>>, or <<"none", <<>>>> for None.                 *)
(***************************************************************************)
NHits == 2

Tensor(t) == <<"tensor", t>>
None == <<"none", <<>>>>

PidVals == {0, 3, 4}

\* the batch: per-hit particle_id, reconstructable flag and pt, one edge
DataOf(pid, reco) ==
    [x |-> [i \in 1..NHits |-> 100 + i], y |-> <<1>>,
     pt |-> [i \in 1..NHits |-> 10 * i],
     particle_id |-> pid, reconstructable |-> reco,
     edge_index |-> <<<<1>>, <<2>>>>, sector |-> <<0>>,
     batch |-> [i \in 1..NHits |-> 0]]

DataSets ==
    {DataOf(pid, reco) : pid \in [1..NHits -> PidVals], reco \in [1..NHits -> BOOLEAN]}

\* keys a model may put in its output; "aux" stands for any other key
OutKeys == {"W", "H", "B", "P", "ec_hit_mask", "ec_edge_mask", "aux"}

OutValue(key) ==
    CASE key = "W" -> Tensor(<<7>>)
      [] key = "H" -> Tensor([i \in 1..NHits |-> 20 + i])
      [] key = "B" -> Tensor([i \in 1..NHits |-> 30 + i])
      [] key = "P" -> Tensor([i \in 1..NHits |-> 40 + i])
      [] key = "ec_hit_mask" -> Tensor([i \in 1..NHits |-> i % 2])
      [] key = "ec_edge_mask" -> Tensor(<<0>>)
      [] OTHER -> Tensor(<<99>>)

ModelOutputs == {[key \in K |-> OutValue(key)] : K \in SUBSET OutKeys}

\* .long() of a flag, .bool() of a tensor, torch.full_like(t, True)
Long(b) == IF b THEN 1 ELSE 0
ToBool(t) == [i \in DOMAIN t |-> t[i] # 0]
FullLikeTrue(t) == [i \in DOMAIN t |-> 1]

\* lines 125-128
PidFieldWrong(d, mask_pids_reco) ==
    [i \in DOMAIN d.particle_id |-> d.particle_id[i] * Long(d.reconstructable[i])]
PidField(d, mask_pids_reco) ==
    IF mask_pids_reco
    THEN [i \in DOMAIN d.particle_id |-> d.particle_id[i] * Long(d.reconstructable[i])]
    ELSE d.particle_id

\* get_if_defined(key): out.pop(key), or None
GetIfDefined(out, key) == IF key \in DOMAIN out THEN out[key] ELSE None

\* out.get(key, torch.full_like(like, True)).bool()
MaskOrAllTrue(out, key, like) ==
    IF key \in DOMAIN out THEN Tensor(ToBool(out[key][2]))
    ELSE Tensor(ToBool(FullLikeTrue(like)))

PoppedKeys == {"W", "H", "B", "P"}
BundleKeys ==
    {"w", "x", "beta", "pred", "ec_hit_mask", "ec_edge_mask", "y", "particle_id",
     "track_params", "pt", "reconstructable", "edge_index", "sector", "node_features",
     "batch"}

\* the dictionary passed to dct.update (lines 141-160)
BundleEntry(out, d, mask_pids_reco, key) ==
    CASE key = "w" -> GetIfDefined(out, "W")
      [] key = "x" -> GetIfDefined(out, "H")
      [] key = "beta" -> GetIfDefined(out, "B")
      [] key = "pred" -> GetIfDefined(out, "P")
      [] key = "ec_hit_mask" -> MaskOrAllTrue(out, "ec_hit_mask", d.pt)
      [] key = "ec_edge_mask" -> MaskOrAllTrue(out, "ec_edge_mask", d.y)
      [] key = "y" -> Tensor(d.y)
      [] key = "particle_id" -> Tensor(PidField(d, mask_pids_reco))
      [] key = "track_params" -> Tensor(d.pt)
      [] key = "pt" -> Tensor(d.pt)
      [] key = "reconstructable" ->
            Tensor([i \in DOMAIN d.reconstructable |-> Long(d.reconstructable[i])])
      [] key = "edge_index" -> Tensor(d.edge_index)
      [] key = "sector" -> Tensor(d.sector)
      [] key = "node_features" -> Tensor(d.x)
      [] key = "batch" -> Tensor(d.batch)

EvaluateModel(out, d, mask_pids_reco) ==
    [key \in (DOMAIN out \ PoppedKeys) \cup BundleKeys |->
        IF key \in BundleKeys THEN BundleEntry(out, d, mask_pids_reco, key)
        ELSE out[key]]

InitBundle ==
    /\ data \in DataSets
    /\ model_out \in ModelOutputs
    /\ bundle_train = NoDict
    /\ bundle_eval = NoDict
    /\ loss_functions = <<>>
    /\ loss_returns = <<>>
    /\ gbl_result = NoResult
    /\ TrainIdle
    /\ BuilderIdle
    /\ EvalIdle
    /\ MaskIdle

\* training_step: self.evaluate_model(batch)
EvaluateForTraining ==
    /\ DOMAIN bundle_train = {}
    /\ bundle_train' = EvaluateModel(model_out, data, TRUE)
    /\ UNCHANGED <<data, model_out, bundle_eval, loss_functions, trainVars, lossVars,
                   builderVars, evalVars, maskVars>>

\* test_step: self.evaluate_model(data, mask_pids_reco=False)
EvaluateForTest ==
    /\ DOMAIN bundle_eval = {}
    /\ bundle_eval' = EvaluateModel(model_out, data, FALSE)
    /\ UNCHANGED <<data, model_out, bundle_train, loss_functions, trainVars, lossVars,
                   builderVars, evalVars, maskVars>>

NextBundle == EvaluateForTraining \/ EvaluateForTest

SpecBundle == InitBundle /\ [][NextBundle]_vars

\* C9: for the same model output and batch, the bundle built with particle-id
\* masking and the one built without it agree on every key but particle_id;
\* masked, particle_id is 0 for a hit whose reconstructable flag is 0 and the
\* original id otherwise; unmasked, it is the original id for every hit.
C9_OnlyParticleIdDiffers ==
    (DOMAIN bundle_train # {} /\ DOMAIN bundle_eval # {}) =>
        /\ DOMAIN bundle_train = DOMAIN bundle_eval
        /\ \A key \in DOMAIN bundle_train \ {"particle_id"} :
              bundle_train[key] = bundle_eval[key]
        /\ \A i \in 1..NHits :
              bundle_train["particle_id"][2][i] =
                 IF data.reconstructable[i] THEN data.particle_id[i] ELSE 0
        /\ bundle_eval["particle_id"] = Tensor(data.particle_id)

\* C9 witness: both bundles built for a batch with a non-reconstructable hit
\* of a real particle, so the two particle_id fields differ.
C9_Witness ==
    /\ DOMAIN bundle_train # {}
    /\ DOMAIN bundle_eval # {}
    /\ bundle_train["particle_id"] # bundle_eval["particle_id"]
    /\ "aux" \in DOMAIN bundle_train
    /\ bundle_train["w"] = None

(***************************************************************************)
(* PointCloudBuilder.  A hit table is a sequence of hits; u and v are held *)
(* in units of 1e-5 so that sector_di = 0.0001 is 10 units.  The sectors   *)
(* modelled are those of n_sectors in {1, 2, 4}, whose rotation angles are *)
(* multiples of a quarter turn.  Hit tables are taken as load_event,       *)
(* restrict_to_pixel and the feature columns of append_features leave them;*)
(* the hits used have u # 0 and v # 0, so no hit lies on a boundary where  *)
(* the rounding of cos and sin would decide.                               *)
(***************************************************************************)
MaxEvents == 2
EventIds == 1..MaxEvents

Hit(id, u, v, pid) == [particle_id |-> pid, u |-> u, v |-> v, hit_id |-> id]

HitTables ==
    {<<>>,
     <<Hit(1, 300, 5, 3), Hit(2, -300, 200, 0)>>,
     <<Hit(1, 300, 5, 3), Hit(2, -300, 200, 0), Hit(3, 200, 300, 4), Hit(4, -5, -300, 3)>>}

NSectorChoices == {1, 2, 4}

\* the artifacts an earlier run may have left in outdir
CacheCandidates == EventIds \X {0, 1}

\* what an earlier run stored: not constrained by this run's settings
OldSample(evtid) == events[evtid]

\* __init__ (lines 51-62): exists[evtid] is decided by data{evtid}_s0.pt alone
ExistsAtInit(files, evtid) == <<evtid, 0>> \in files

ProcessIdle ==
    /\ data_list = <<>>
    /\ stats = NoDict
    /\ b_pc = "idle"
    /\ b_error = ""
    /\ n_arg = 0
    /\ ev_i = 0
    /\ sec = 0
    /\ hits_cur = <<>>
    /\ counts = NoCounts
    /\ ops = <<>>

InitBuilder ==
    /\ n_sectors \in NSectorChoices
    /\ redo \in BOOLEAN
    /\ measurement_mode \in BOOLEAN
    /\ remove_noise \in BOOLEAN
    /\ events \in [EventIds -> HitTables]
    /\ files_at_init \in SUBSET CacheCandidates
    /\ outdir = [f \in files_at_init |-> OldSample(f[1])]
    /\ exists = [evtid \in EventIds |-> ExistsAtInit(files_at_init, evtid)]
    /\ prefixes = [i \in 1..MaxEvents |-> i]
    /\ ProcessIdle
    /\ loss_functions = <<>>
    /\ loss_returns = <<>>
    /\ gbl_result = NoResult
    /\ TrainIdle
    /\ BundleIdle
    /\ EvalIdle
    /\ MaskIdle

\* append_features (lines 90-98, 105-107): noise hits are joined back in
\* unless remove_noise
AppendFeatures(hits) ==
    IF remove_noise THEN SelectSeq(hits, LAMBDA h : h.particle_id # 0) ELSE hits

\* theta = s*2*pi/n_sectors, in quarter turns
Quarter(s) == (4 * s) \div n_sectors
\* ur and vr (lines 115-116)
Ur(h, s) == CASE Quarter(s) = 0 -> h.u  [] Quarter(s) = 1 -> -h.v
              [] Quarter(s) = 2 -> -h.u [] OTHER -> h.v
Vr(h, s) == CASE Quarter(s) = 0 -> h.v  [] Quarter(s) = 1 -> h.u
              [] Quarter(s) = 2 -> -h.v [] OTHER -> -h.u
\* slope = np.arctan(theta), times 1e5
SlopeE5(s) == CASE Quarter(s) = 0 -> 0      [] Quarter(s) = 1 -> 100388
                [] Quarter(s) = 2 -> 126263 [] OTHER -> 136169

\* lines 118-122, with sector_ds = 1.1 and sector_di = 0.0001
InExtendedSector(h, s) ==
    /\ Vr(h, s) * 1000000 > -11 * SlopeE5(s) * Ur(h, s) - 10000000
    /\ Vr(h, s) * 1000000 < 11 * SlopeE5(s) * Ur(h, s) + 10000000
    /\ Ur(h, s) > 0

\* lines 126-128
InStrictSector(h, s) ==
    /\ Vr(h, s) * 100000 > -SlopeE5(s) * Ur(h, s)
    /\ Vr(h, s) * 100000 < SlopeE5(s) * Ur(h, s)
    /\ Ur(h, s) >= 0

\* sector_hits(hits, s): for n_sectors = 1 the bare table is returned, else
\* the pair (extended_sector, measurements); measurement mode divides by the
\* size of the strict sector
SectorHits(hits, s) ==
    IF n_sectors = 1 THEN [sector |-> hits, pair |-> FALSE, raised |-> ""]
    ELSE LET extended_sector == SelectSeq(hits, LAMBDA h : InExtendedSector(h, s))
             sector == SelectSeq(hits, LAMBDA h : InStrictSector(h, s))
         IN  IF measurement_mode /\ Len(sector) = 0
             THEN [sector |-> <<>>, pair |-> TRUE, raised |-> "ZeroDivisionError"]
             ELSE [sector |-> extended_sector, pair |-> TRUE, raised |-> ""]

\* the columns of the table append_features returns (lines 105-107)
NColumns == 14

\* sector, measurements = self.sector_hits(hits, s): a bare table unpacks
\* into its column labels, which must then be exactly two
CanUnpack(r) == r.pair \/ NColumns = 2

\* to_pyg_data: the selected hits, features divided by a scale of ones
ToPygData(hits) == hits

trainerVars == <<loss_functions, trainVars, lossVars, bundleVars, evalVars, maskVars>>

Raise(exc) ==
    /\ b_pc' = "error"
    /\ b_error' = exc

\* process(n)
StartProcess(n) ==
    /\ b_pc = "idle"
    /\ b_pc' = "event"
    /\ n_arg' = n
    /\ ev_i' = 0
    /\ UNCHANGED <<builderCfg, outdir, data_list, stats, b_error, sec, hits_cur, counts, ops,
                   trainerVars>>

\* lines 145-159: the head of one iteration of the loop over self.prefixes
BeginEvent ==
    /\ b_pc = "event"
    /\ IF ev_i >= Len(prefixes) \/ ev_i >= n_arg
       THEN /\ b_pc' = "done"
            /\ UNCHANGED <<hits_cur, counts, sec>>
       ELSE LET hits == events[prefixes[ev_i + 1]]
                aug  == AppendFeatures(hits)
            IN  /\ b_pc' = "sector"
                /\ hits_cur' = aug
                /\ counts' = [n_hits |-> Len(hits),
                              n_noise |-> Len(SelectSeq(aug, LAMBDA h : h.particle_id = 0)),
                              n_sector_hits |-> 0]
                /\ sec' = 0
    /\ UNCHANGED <<builderCfg, outdir, data_list, stats, b_error, n_arg, ev_i, ops,
                   trainerVars>>

\* lines 161-172: one iteration of the loop over the sectors
UseCache(evtid, s) == exists[evtid] /\ ~redo

ProcessSector ==
    /\ b_pc = "sector"
    /\ sec < n_sectors
    /\ LET evtid == prefixes[ev_i + 1]
           name  == <<evtid, sec>>
       IN  IF UseCache(evtid, sec)
           THEN /\ ops' = Append(ops, <<"load", evtid, sec>>)
                /\ IF name \in DOMAIN outdir
                   THEN /\ data_list' = Append(data_list, outdir[name])
                        /\ sec' = sec + 1
                        /\ UNCHANGED <<b_pc, b_error>>
                   ELSE /\ Raise("FileNotFoundError")
                        /\ UNCHANGED <<data_list, sec>>
                /\ UNCHANGED <<outdir, counts>>
           ELSE \E r \in {SectorHits(hits_cur, sec)} :
                IF r.raised # ""
                THEN /\ Raise(r.raised)
                     /\ ops' = Append(ops, <<"compute", evtid, sec>>)
                     /\ UNCHANGED <<outdir, data_list, counts, sec>>
                ELSE IF ~CanUnpack(r)
                THEN /\ Raise("ValueError")
                     /\ ops' = Append(ops, <<"compute", evtid, sec>>)
                     /\ UNCHANGED <<outdir, data_list, counts, sec>>
                ELSE /\ counts' = [counts EXCEPT !.n_sector_hits = @ + Len(r.sector)]
                     /\ outdir' = [f \in DOMAIN outdir \cup {name} |->
                                     IF f = name THEN ToPygData(r.sector) ELSE outdir[f]]
                     /\ ops' = ops \o <<<<"compute", evtid, sec>>, <<"save", evtid, sec>>>>
                     /\ data_list' = Append(data_list, ToPygData(r.sector))
                     /\ sec' = sec + 1
                     /\ UNCHANGED <<b_pc, b_error>>
    /\ UNCHANGED <<builderCfg, stats, n_arg, ev_i, hits_cur,
                   trainerVars>>

\* lines 174-177: the statistics of the event
EndEvent ==
    /\ b_pc = "sector"
    /\ sec = n_sectors
    /\ LET evtid == prefixes[ev_i + 1]
       IN  stats' = [e \in DOMAIN stats \cup {evtid} |->
                        IF e = evtid THEN counts ELSE stats[e]]
    /\ ev_i' = ev_i + 1
    /\ b_pc' = "event"
    /\ UNCHANGED <<builderCfg, outdir, data_list, b_error, n_arg, sec, hits_cur, counts, ops,
                   trainerVars>>

Process == \E n \in 0..MaxEvents : StartProcess(n)

NextBuilder == Process \/ BeginEvent \/ ProcessSector \/ EndEvent

SpecBuilder == InitBuilder /\ [][NextBuilder]_vars

\* the (event, sector) pairs process() has handled so far, in order, each as
\* <<"load" or "compute", evtid, s>>
Attempts == SelectSeq(ops, LAMBDA o : o[1] \in {"load", "compute"})

CachedAtInit(evtid, s) == <<evtid, s>> \in files_at_init

\* C6 (as claimed): for every (event, sector) that process() handles, the
\* artifact is loaded exactly when redo is False and that artifact's own file
\* was in outdir at construction, and is computed otherwise.
C6_ArtifactIsUnitOfCaching ==
    \A k \in DOMAIN Attempts :
        (Attempts[k][1] = "load") <=> (~redo /\ CachedAtInit(Attempts[k][2], Attempts[k][3]))

\* C8 (as claimed): with n_sectors = 1, the sector process() computes for an
\* event is the event's hit table unchanged, and that is the sample appended.
C8_SingleSectorIsIdentity ==
    n_sectors = 1 =>
        \A k \in DOMAIN Attempts :
            Attempts[k][1] = "compute" =>
                /\ k \in DOMAIN data_list
                /\ data_list[k] = ToPygData(AppendFeatures(events[Attempts[k][2]]))

(***************************************************************************)
(* test_step.  The trainer is built with its clustering functions; the     *)
(* loaders, the metrics log and the hooks are attributes that its owner    *)
(* attaches, and the owner advances self._epoch between evaluations (the   *)
(* step() that did so is commented out, lines 460-487).  A batch is held   *)
(* as what the loss functions return on it; evaluate_model and             *)
(* evaluate_ec_metrics are functions of the batch and change no state.     *)
(* Clustering functions and hooks are modelled as returning; an exception  *)
(* raised by test_step ends the run.                                       *)
(***************************************************************************)
MaxEvals == 3
MaxBatches == 1
MaxEpoch == 1

EvalLossFunctions == ("a" :> Scalar(F(3)))
GoodBatch == ("a" :> Scalar(F(1)))
NaNBatch  == ("a" :> Scalar(NaN))

\* loaders of good batches, the last of which may give a NaN loss
Loaders ==
    {[i \in 1..k |-> GoodBatch] : k \in 0..MaxBatches}
    \cup {[i \in 1..k |-> IF i = k THEN NaNBatch ELSE GoodBatch] : k \in 1..MaxBatches}

\* the loaders come together from one data module, or not at all
DataModules ==
    {<<Undefined, Undefined>>} \cup {<<Attr(l), Attr(<<GoodBatch>>)>> : l \in Loaders}

HookLists == {<<>>, <<"plot", "save">>}
ClusterFctLists == {<<>>, <<"dbscan">>, <<"dbscan", "hdbscan">>}
MaxBatchesArgs == {NoMaxBatches} \cup {MaxBatchesOf(k) : k \in 0..MaxBatches}

\* a clustering function returns None or a result; the result of evaluation
\* e carries the parameters its search found, named by e
ClusterResult(e) == <<"result", <<e>>>>
ClusterResultsAt(e) == {None, ClusterResult(e)}
\* cluster_result.best_params
BestParamsOf(result) == <<"params", result[2]>>

\* self.max_batches_for_clustering (line 95)
max_batches_for_clustering == 10

\* the owner attaches the loaders, the log and the hooks, or leaves them out
AttachCollaborators ==
    /\ t_pc = "idle"
    /\ n_evals = 0
    /\ ~IsDefined(val_loader) /\ ~IsDefined(test_loader)
    /\ ~IsDefined(test_loss) /\ ~IsDefined(_test_hooks)
    /\ \E dm \in DataModules :
          /\ val_loader' = dm[1]
          /\ test_loader' = dm[2]
    /\ test_loss' \in {Undefined, Attr(<<>>)}
    /\ _test_hooks' \in {Undefined} \cup {Attr(h) : h \in HookLists}
    /\ UNCHANGED <<clustering_functions, _epoch, _best_cluster_params, t_pc, t_error, n_evals,
                   localVars, metrics, hook_calls, cluster_calls>>
    /\ UNCHANGED <<loss_functions, trainVars, lossVars, bundleVars, builderVars, maskVars>>

\* self._epoch += 1, once an evaluation has returned
EpochAdvance ==
    /\ t_pc = "done"
    /\ _epoch < MaxEpoch
    /\ _epoch' = _epoch + 1
    /\ t_pc' = "idle"
    /\ UNCHANGED <<clustering_functions, _best_cluster_params, attrVars, t_error, n_evals,
                   localVars, metrics, hook_calls, cluster_calls>>
    /\ UNCHANGED <<loss_functions, trainVars, lossVars, bundleVars, builderVars, maskVars>>

RaiseInTest(exc) ==
    /\ t_pc' = "error"
    /\ t_error' = exc

\* test_step(val, max_batches), lines 308-317
TestStep(v, mb) ==
    /\ t_pc \in {"idle", "done"}
    /\ n_evals < MaxEvals
    /\ n_evals' = n_evals + 1
    /\ val' = v
    /\ max_batches' = mb
    /\ _batch_idx' = 0
    /\ batch_metrics' = <<>>
    /\ cluster_eval_input' = <<>>
    /\ IF IsDefined(IF v THEN val_loader ELSE test_loader)
       THEN /\ t_pc' = "loop"
            /\ UNCHANGED t_error
       ELSE RaiseInTest("AttributeError")
    /\ UNCHANGED <<clustering_functions, _epoch, _best_cluster_params, attrVars, fct_i,
                   cluster_metrics, hook_i, metrics, hook_calls, cluster_calls>>
    /\ UNCHANGED <<loss_functions, trainVars, lossVars, bundleVars, builderVars, maskVars>>

CallTestStep == \E v \in BOOLEAN, mb \in MaxBatchesArgs : TestStep(v, mb)

\* if max_batches and _batch_idx > max_batches: break
BreakNow(mb, idx) == mb.given /\ mb.n # 0 /\ idx > mb.n

\* self.clustering_functions and _batch_idx <= self.max_batches_for_clustering
UsedForClustering(idx) ==
    clustering_functions # <<>> /\ idx <= max_batches_for_clustering

\* lines 318-352: one iteration of the loop over the loader, or its end
TestBatch ==
    /\ t_pc = "loop"
    /\ LET loader == IF val THEN val_loader[2] ELSE test_loader[2]
       IN  IF _batch_idx >= Len(loader) \/ BreakNow(max_batches, _batch_idx)
           THEN \* val and max_batches are not read after the loop
                /\ t_pc' = "cluster"
                /\ fct_i' = 0
                /\ cluster_metrics' = NoDict
                /\ val' = TRUE
                /\ max_batches' = NoMaxBatches
                /\ UNCHANGED <<t_error, _batch_idx, batch_metrics, cluster_eval_input>>
           ELSE \E r \in {GetBatchLosses(loss_functions, loader[_batch_idx + 1])} :
                IF r.status # "returned"
                THEN /\ RaiseInTest(r.status)
                     /\ UNCHANGED <<val, max_batches, _batch_idx, batch_metrics,
                                    cluster_eval_input, fct_i, cluster_metrics>>
                ELSE /\ batch_metrics' = Append(batch_metrics, r.total)
                     /\ cluster_eval_input' =
                           IF UsedForClustering(_batch_idx)
                           THEN Append(cluster_eval_input, _batch_idx)
                           ELSE cluster_eval_input
                     /\ _batch_idx' = _batch_idx + 1
                     /\ UNCHANGED <<t_pc, t_error, val, max_batches, fct_i, cluster_metrics>>
    /\ UNCHANGED <<clustering_functions, _epoch, _best_cluster_params, attrVars, n_evals,
                   hook_i, metrics, hook_calls, cluster_calls>>
    /\ UNCHANGED <<loss_functions, trainVars, lossVars, bundleVars, builderVars, maskVars>>

\* start_params=self._best_cluster_params.get(fct_name)
StartParams(cache, fct_name) ==
    IF fct_name \in DOMAIN cache THEN cache[fct_name] ELSE None

Put(dict, key, value) ==
    [kk \in DOMAIN dict \cup {key} |-> IF kk = key THEN value ELSE dict[kk]]

\* lines 388-391: a None result leaves the cache as it is
CacheAfterWrong(cache, fct_name, result) ==
    IF result = None THEN [kk \in DOMAIN cache \ {fct_name} |-> cache[kk]]
    ELSE Put(cache, fct_name, BestParamsOf(result))
CacheAfter(cache, fct_name, result) ==
    IF result = None THEN cache
    ELSE Put(cache, fct_name, BestParamsOf(result))

\* _evaluate_cluster_metrics, lines 382-398: one iteration of the loop over
\* self.clustering_functions.items()
ClusterStep ==
    /\ t_pc = "cluster"
    /\ fct_i < Len(clustering_functions)
    /\ \E result \in ClusterResultsAt(n_evals) :
          LET fct_name == clustering_functions[fct_i + 1]
          IN  /\ cluster_calls' = Append(cluster_calls,
                     [cluster_eval_input |-> cluster_eval_input,
                      result |-> result,
                      fct_name |-> fct_name,
                      epoch |-> _epoch,
                      start_params |-> StartParams(_best_cluster_params, fct_name),
                      eval |-> n_evals])
              /\ _best_cluster_params' = CacheAfter(_best_cluster_params, fct_name, result)
              /\ cluster_metrics' =
                    IF result = None THEN cluster_metrics
                    ELSE Put(cluster_metrics, fct_name, result[2])
    /\ fct_i' = fct_i + 1
    /\ UNCHANGED <<clustering_functions, _epoch, attrVars, t_pc, t_error, n_evals, val,
                   max_batches, _batch_idx, batch_metrics, cluster_eval_input, hook_i,
                   metrics, hook_calls>>
    /\ UNCHANGED <<loss_functions, trainVars, lossVars, bundleVars, builderVars, maskVars>>

RECURSIVE FSum(_)
FSum(values) == IF values = <<>> THEN F(0) ELSE FAdd(Head(values), FSum(Tail(values)))

\* lines 355-363: the mean and the standard deviation of the batch totals
\* (held as their sum and their number), the clustering metrics and the
\* weights of the loss functions
MergeMetrics(totals, clusters, lf) ==
    [total |-> FSum(totals), clusters |-> clusters, n_batches |-> Len(totals), lw |-> lf]

\* pd.DataFrame(metrics, index=[self._epoch])
RowIndexWrong(epoch) == epoch + 1
RowIndex(epoch) == epoch
Row(epoch, m) == [metrics |-> m, index |-> RowIndex(epoch)]

\* lines 355-366: the merge, the append to self.test_loss, and the read of
\* self._test_hooks
AppendRow ==
    /\ t_pc = "cluster"
    /\ fct_i = Len(clustering_functions)
    /\ metrics' = MergeMetrics(batch_metrics, cluster_metrics, loss_functions)
    /\ IF ~IsDefined(test_loss)
       THEN /\ RaiseInTest("AttributeError")
            /\ UNCHANGED test_loss
       ELSE /\ test_loss' = Attr(Append(test_loss[2], Row(_epoch, metrics')))
            /\ IF IsDefined(_test_hooks)
               THEN /\ t_pc' = "hooks"
                    /\ UNCHANGED t_error
               ELSE RaiseInTest("AttributeError")
    /\ hook_i' = 0
    /\ UNCHANGED <<clustering_functions, _epoch, _best_cluster_params, val_loader, test_loader,
                   _test_hooks, n_evals, val, max_batches, _batch_idx, batch_metrics,
                   cluster_eval_input, fct_i, cluster_metrics, hook_calls, cluster_calls>>
    /\ UNCHANGED <<loss_functions, trainVars, lossVars, bundleVars, builderVars, maskVars>>

\* return metrics: the local variables go out of scope
ReturnFromTest ==
    /\ val' = TRUE
    /\ max_batches' = NoMaxBatches
    /\ _batch_idx' = 0
    /\ batch_metrics' = <<>>
    /\ cluster_eval_input' = <<>>
    /\ fct_i' = 0
    /\ cluster_metrics' = NoDict
    /\ hook_i' = 0

\* lines 366-368: hook(self, metrics) for the next hook, or return metrics
CallHook ==
    /\ t_pc = "hooks"
    /\ IF hook_i < Len(_test_hooks[2])
       THEN /\ hook_calls' = Append(hook_calls,
                   [test_loss |-> test_loss[2],
                    metrics |-> metrics,
                    eval |-> n_evals,
                    hook |-> _test_hooks[2][hook_i + 1]])
            /\ hook_i' = hook_i + 1
            /\ UNCHANGED <<t_pc, val, max_batches, _batch_idx, batch_metrics,
                           cluster_eval_input, fct_i, cluster_metrics>>
       ELSE /\ t_pc' = "done"
            /\ ReturnFromTest
            /\ UNCHANGED hook_calls
    /\ UNCHANGED <<clustering_functions, _epoch, _best_cluster_params, attrVars, t_error,
                   n_evals, metrics, cluster_calls>>
    /\ UNCHANGED <<loss_functions, trainVars, lossVars, bundleVars, builderVars, maskVars>>

InitEval ==
    /\ loss_functions = EvalLossFunctions
    /\ clustering_functions \in ClusterFctLists
    /\ EvalStart
    /\ loss_returns = <<>>
    /\ gbl_result = NoResult
    /\ TrainIdle
    /\ BundleIdle
    /\ BuilderIdle
    /\ MaskIdle

NextEval ==
    AttachCollaborators \/ EpochAdvance \/ CallTestStep \/ TestBatch \/ ClusterStep
    \/ AppendRow \/ CallHook

SpecEval == InitEval /\ [][NextEval]_vars

Latest(S) == CHOOSE j \in S : \A i \in S : i <= j

\* the earlier calls of the function of call k that returned a result
EarlierResults(k) ==
    {j \in 1..(k - 1) : /\ cluster_calls[j].fct_name = cluster_calls[k].fct_name
                        /\ cluster_calls[j].result # None}

\* the best parameters the function of call k returned most recently before k
LatestResultBefore(k) ==
    IF EarlierResults(k) = {} THEN None
    ELSE BestParamsOf(cluster_calls[Latest(EarlierResults(k))].result)

\* the best parameters the function of call k returned in the evaluation
\* just before that of call k
PreviousEvalResult(k) ==
    LET prev == {j \in EarlierResults(k) : cluster_calls[j].eval = cluster_calls[k].eval - 1}
    IN  IF prev = {} THEN None ELSE BestParamsOf(cluster_calls[Latest(prev)].result)

\* evaluation e has run all of _evaluate_cluster_metrics
ClusteringDone(e) == e < n_evals \/ t_pc \in {"hooks", "done", "idle"}

\* every evaluation that has finished clustering called each configured
\* function once, in order, with the epoch its row is indexed by
OncePerEvaluation ==
    \A e \in 1..n_evals :
        ClusteringDone(e) =>
            LET calls == SelectSeq(cluster_calls, LAMBDA c : c.eval = e)
            IN  /\ [i \in DOMAIN calls |-> calls[i].fct_name] = clustering_functions
                /\ \A i \in DOMAIN calls :
                       IsDefined(test_loss) /\ e <= Len(test_loss[2])
                           => calls[i].epoch = test_loss[2][e].index

\* the cache holds, for each function, the parameters of its latest result
CacheHoldsLatest ==
    \A i \in DOMAIN clustering_functions :
        LET fct_name == clustering_functions[i]
            rs == {j \in DOMAIN cluster_calls : /\ cluster_calls[j].fct_name = fct_name
                                                 /\ cluster_calls[j].result # None}
        IN  IF rs = {} THEN fct_name \notin DOMAIN _best_cluster_params
            ELSE /\ fct_name \in DOMAIN _best_cluster_params
                 /\ _best_cluster_params[fct_name] = BestParamsOf(cluster_calls[Latest(rs)].result)

C10_RowThenHooks ==
    /\ t_pc = "done" =>
          /\ Len(test_loss[2]) = n_evals
          /\ test_loss[2][n_evals] = [metrics |-> metrics, index |-> _epoch]
          /\ SelectSeq(hook_calls, LAMBDA c : c.eval = n_evals)
                = [i \in DOMAIN _test_hooks[2] |->
                     [test_loss |-> test_loss[2], metrics |-> metrics, eval |-> n_evals,
                      hook |-> _test_hooks[2][i]]]
    /\ \A i \in DOMAIN hook_calls :
          /\ hook_calls[i].test_loss = SubSeq(test_loss[2], 1, hook_calls[i].eval)
          /\ hook_calls[i].metrics = test_loss[2][hook_calls[i].eval].metrics

\* a second evaluation, in epoch 1, has returned after calling two hooks
C10_Witness ==
    /\ t_pc = "done"
    /\ n_evals = 2
    /\ _epoch = 1
    /\ Len(hook_calls) = 4
    /\ test_loss[2][1].index = 0
    /\ metrics.n_batches = 1

(***************************************************************************)
(* The edge selection of evaluate_ec_metrics_with_pt_thld.  Hits are the   *)
(* nodes 1..NHits; edge_index is held as the sequence of its columns       *)
(* <<a, b>>; pt and pt_min are finite and held in tenths, as the builder's *)
(* pt = sqrt(px^2 + py^2) and the thresholds 0.9 and 1.5 are.  The score   *)
(* of an edge is taken distinct per edge, so that the selection shows      *)
(* which edges were kept and in which order.                               *)
(***************************************************************************)
MaxEdges == 2

PtVals == {0, 9, 10, 15}
\* self.ec_eval_pt_thlds = [0.9, 1.5] (line 99), and the default pt_min=0.0
PtThresholds == {0, 9, 15}

EdgeLists == UNION {[1..k -> (1..NHits) \X (1..NHits)] : k \in 0..MaxEdges}

\* the edge weights the model gives, or None
ScoresOf(edges) == [e \in DOMAIN edges |-> 10 * e]
\* the edge truth labels
LabelsOf(edges) == [e \in DOMAIN edges |-> e % 2 = 1]

\* the model outputs over one edge list: every pt assignment, w given or None
EcInputs(edges) ==
    {[y |-> Tensor(LabelsOf(edges)), w |-> ww, pt |-> Tensor(p),
      edge_index |-> Tensor(edges)] :
        p \in [1..NHits -> PtVals], ww \in {None, Tensor(ScoresOf(edges))}}

\* _edge_pt_mask (lines 291-295)
EdgePtMaskWrong(edges, p, thld) ==
    [e \in DOMAIN edges |-> p[edges[e][1]] > thld /\ p[edges[e][2]] > thld]
EdgePtMask(edges, p, thld) ==
    [e \in DOMAIN edges |-> p[edges[e][1]] > thld \/ p[edges[e][2]] > thld]

\* t[mask]: the entries of t where mask is True, in order
RECURSIVE Masked(_, _)
Masked(t, mask) ==
    IF t = <<>> THEN <<>>
    ELSE IF Head(mask) THEN <<Head(t)>> \o Masked(Tail(t), Tail(mask))
    ELSE Masked(Tail(t), Tail(mask))

\* y.long()
LongOfBool(t) == [i \in DOMAIN t |-> IF t[i] THEN 1 ELSE 0]

InitMask ==
    /\ \E edges \in EdgeLists : ec_input \in EcInputs(edges)
    /\ pt_min \in PtThresholds
    /\ edge_pt_mask = NotMasked
    /\ predicted = NotMasked
    /\ true = NotMasked
    /\ loss_functions = <<>>
    /\ loss_returns = <<>>
    /\ gbl_result = NoResult
    /\ TrainIdle
    /\ BundleIdle
    /\ BuilderIdle
    /\ EvalIdle

\* evaluate_ec_metrics (lines 449-450) returns {} when w is None; otherwise
\* evaluate_ec_metrics_with_pt_thld selects the edges (lines 417-421)
EvaluateEcMetricsWithPtThld ==
    /\ edge_pt_mask = NotMasked
    /\ ec_input.w # None
    /\ \E mask \in {EdgePtMask(ec_input.edge_index[2], ec_input.pt[2], pt_min)} :
          /\ edge_pt_mask' = Tensor(mask)
          /\ predicted' = Tensor(Masked(ec_input.w[2], mask))
          /\ true' = Tensor(LongOfBool(Masked(ec_input.y[2], mask)))
    /\ UNCHANGED <<ec_input, pt_min, loss_functions, trainVars, lossVars, bundleVars,
                   builderVars, evalVars>>

NextMask == EvaluateEcMetricsWithPtThld

SpecMask == InitMask /\ [][NextMask]_vars

\* the edges of the input, by position
EdgeIds == DOMAIN ec_input.edge_index[2]
PtOfEnd(e, side) == ec_input.pt[2][ec_input.edge_index[2][e][side]]
\* the positions of the edges whose score was passed on, read back from the
\* scores (the score of edge e is 10 * e)
FedEdges == [i \in DOMAIN predicted[2] |-> predicted[2][i] \div 10]

\* C11: once the edges are selected, an edge is masked out exactly when both
\* of its endpoints have pt <= pt_min, and the scores and labels passed to
\* the statistics are those of exactly the edges with an endpoint of
\* pt > pt_min, each once and in edge order.
C11_MaskedIffBothAtOrBelow ==
    edge_pt_mask # NotMasked =>
        /\ DOMAIN edge_pt_mask[2] = EdgeIds
        /\ \A e \in EdgeIds :
              ~edge_pt_mask[2][e] <=> (PtOfEnd(e, 1) <= pt_min /\ PtOfEnd(e, 2) <= pt_min)
        /\ {FedEdges[i] : i \in DOMAIN FedEdges}
              = {e \in EdgeIds : \E side \in {1, 2} : PtOfEnd(e, side) > pt_min}
        /\ \A i, j \in DOMAIN FedEdges : i < j => FedEdges[i] < FedEdges[j]
        /\ Len(true[2]) = Len(predicted[2])
        /\ \A i \in DOMAIN FedEdges :
              true[2][i] = IF ec_input.y[2][FedEdges[i]] THEN 1 ELSE 0

\* two edges at threshold 0.9: one with an endpoint above it (pt 1.0 against
\* pt 0.9) is kept, one with both endpoints at the threshold is masked out
C11_Witness ==
    /\ edge_pt_mask # NotMasked
    /\ pt_min = 9
    /\ ec_input.pt[2] = <<9, 10>>
    /\ ec_input.edge_index[2] = <<<<1, 1>>, <<1, 2>>>>
    /\ edge_pt_mask[2] = <<FALSE, TRUE>>
    /\ predicted[2] = <<20>>
    /\ true[2] = <<0>>

(***************************************************************************)
(* SpecLoop: the batch loop of test_step (TestStep and TestBatch above)    *)
(* over loaders long enough to pass max_batches_for_clustering, for one    *)
(* call, up to the end of the loop.                                        *)
(***************************************************************************)
MaxLoaderLen == 12

LongLoaders == {[i \in 1..k |-> GoodBatch] : k \in 0..MaxLoaderLen}
LongMaxBatchesArgs == {NoMaxBatches} \cup {MaxBatchesOf(k) : k \in 0..MaxLoaderLen}

\* the owner attaches the loaders, an empty log and no hooks
AttachLongLoaders ==
    /\ t_pc = "idle"
    /\ n_evals = 0
    /\ ~IsDefined(val_loader) /\ ~IsDefined(test_loader)
    /\ \E l \in LongLoaders :
          /\ val_loader' = Attr(l)
          /\ test_loader' = Attr(<<GoodBatch>>)
    /\ test_loss' = Attr(<<>>)
    /\ _test_hooks' = Attr(<<>>)
    /\ UNCHANGED <<clustering_functions, _epoch, _best_cluster_params, t_pc, t_error, n_evals,
                   localVars, metrics, hook_calls, cluster_calls>>
    /\ UNCHANGED <<loss_functions, trainVars, lossVars, bundleVars, builderVars, maskVars>>

CallLongTestStep ==
    /\ n_evals = 0
    /\ \E v \in BOOLEAN, mb \in LongMaxBatchesArgs : TestStep(v, mb)

NextLoop == AttachLongLoaders \/ CallLongTestStep \/ TestBatch

SpecLoop == InitEval /\ [][NextLoop]_vars

\* C12 (as claimed): while an evaluation that was given a cap max_batches
\* runs its loop, it has processed at most max_batches batches.
C12_AtMostMaxBatches ==
    (t_pc = "loop" /\ max_batches.given) => Len(batch_metrics) <= max_batches.n

\* C13 (as claimed): at every point of an evaluation the accumulator holds at
\* most max_batches_for_clustering arrays, those of the first batches in
\* batch order.
C13_AtMostMaxBatchesForClustering ==
    /\ Len(cluster_eval_input) <= max_batches_for_clustering
    /\ cluster_eval_input = [i \in DOMAIN cluster_eval_input |-> i - 1]

\* the number of hits in the samples that data_list holds at positions K
RECURSIVE HitsInSamples(_)
HitsInSamples(K) ==
    IF K = {} THEN 0
    ELSE LET k == CHOOSE x \in K : TRUE
         IN  Len(data_list[k]) + HitsInSamples(K \ {k})

\* C14 (as claimed): once the statistics of an event are recorded, its
\* n_sector_hits is the number of hits summed over the event's sector samples
\* in data_list, computed or loaded.
C14_SectorHitsCountsEverySample ==
    \A evtid \in DOMAIN stats :
        stats[evtid].n_sector_hits
            = HitsInSamples({k \in DOMAIN Attempts : Attempts[k][2] = evtid})

=============================================================================
